---- MODULE Spec2Model ----
(***************************************************************************)
(* Model of the quadkey library (quadkey.go): the digit codec (Valid, XYZ, *)
(* FromXYZ), the hierarchy navigation (Parent, Children), the tile bound   *)
(* (Bound) and the region enumeration (KeysInBound).                       *)
(*                                                                         *)
(* A QuadKey (a Go string) is a sequence of one-character strings.  The    *)
(* library is stateless; the state of the model is the key a caller holds, *)
(* how it was made, and the results of the last call made on it.           *)
(***************************************************************************)
EXTENDS Integers, Sequences, FiniteSets, TLC

\* Largest zoom / key length the caller draws its inputs from.
MaxZ == 3

\* Bytes a key may hold: the four quad digits and one other byte, the 'a'
\* of the tests.
Digits == {"0", "1", "2", "3"}
Bytes == Digits \cup {"a"}

RECURSIVE Pow2(_)
\* 1 << e, math.Pow(2.0, z), math.Exp2(z)
Pow2(e) == IF e <= 0 THEN 1 ELSE 2 * Pow2(e - 1)

\* All strings of length 0..n over Bytes.
RECURSIVE StringsUpTo(_)
StringsUpTo(n) ==
    IF n = 0 THEN {<<>>}
    ELSE LET S == StringsUpTo(n - 1)
         IN  S \cup {Append(s, b) : s \in {t \in S : Len(t) = n - 1}, b \in Bytes}

\* ---------------------------------------------------------------------
\* errors
\* ---------------------------------------------------------------------
Nil == [kind |-> "nil", index |-> -1, ch |-> ""]
ErrEmpty == [kind |-> "key is empty", index |-> -1, ch |-> ""]
ErrRoot == [kind |-> "key is root", index |-> -1, ch |-> ""]
ErrDigit(i, c) == [kind |-> "key contains invalid digit", index |-> i, ch |-> c]

\* ---------------------------------------------------------------------
\* QuadKey methods
\* ---------------------------------------------------------------------

\* ValidLoop returning nil from inside the switch, at the first digit.
RECURSIVE ValidLoopFirstOnly(_, _)
ValidLoopFirstOnly(key, i) ==
    IF i >= Len(key) THEN Nil
    ELSE IF key[i + 1] \in {"0", "1", "2", "3"} THEN Nil
    ELSE ErrDigit(i, key[i + 1])

\* The loop of Valid: i is the 0-based index of the byte examined next.
RECURSIVE ValidLoop(_, _)
ValidLoop(key, i) ==
    IF i >= Len(key) THEN Nil
    ELSE IF key[i + 1] \in {"0", "1", "2", "3"} THEN ValidLoop(key, i + 1)
    ELSE ErrDigit(i, key[i + 1])

Valid(key) ==
    IF key = <<>> THEN ErrEmpty ELSE ValidLoop(key, 0)

Z(key) == Len(key)

\* x & mask != 0, for x >= 0 and mask a power of two
BitSet(x, mask) == (x \div mask) % 2 = 1

\* x | mask, for x >= 0 and mask a power of two
BitOr(x, mask) == IF BitSet(x, mask) THEN x ELSE x + mask

\* XYZLoop with the mask one bit too high.
RECURSIVE XYZLoopMaskOff(_, _, _, _)
XYZLoopMaskOff(key, i, x, y) ==
    LET z == Z(key)
        mask == Pow2(i)
        c == key[z - i + 1]
    IN  IF i <= 0 THEN <<x, y, z>>
        ELSE IF c = "0" THEN XYZLoopMaskOff(key, i - 1, x, y)
        ELSE IF c = "1" THEN XYZLoopMaskOff(key, i - 1, BitOr(x, mask), y)
        ELSE IF c = "2" THEN XYZLoopMaskOff(key, i - 1, x, BitOr(y, mask))
        ELSE IF c = "3" THEN XYZLoopMaskOff(key, i - 1, BitOr(x, mask), BitOr(y, mask))
        ELSE <<-1, -1, -1>>

\* The loop of XYZ: i runs from z down to 1, x and y are the accumulators.
RECURSIVE XYZLoop(_, _, _, _)
XYZLoop(key, i, x, y) ==
    LET z == Z(key)
        mask == Pow2(i - 1)
        c == key[z - i + 1]
    IN  IF i <= 0 THEN <<x, y, z>>
        ELSE IF c = "0" THEN XYZLoop(key, i - 1, x, y)
        ELSE IF c = "1" THEN XYZLoop(key, i - 1, BitOr(x, mask), y)
        ELSE IF c = "2" THEN XYZLoop(key, i - 1, x, BitOr(y, mask))
        ELSE IF c = "3" THEN XYZLoop(key, i - 1, BitOr(x, mask), BitOr(y, mask))
        ELSE <<-1, -1, -1>>

XYZ(key) ==
    IF Valid(key) # Nil THEN <<-1, -1, -1>>
    ELSE XYZLoop(key, Z(key), 0, 0)

\* Parent slicing off the first byte instead of the last.
ParentDropsFirst(key) ==
    IF Valid(key) # Nil THEN <<<<>>, Valid(key)>>
    ELSE IF Z(key) = 1 THEN <<<<>>, ErrRoot>>
    ELSE <<SubSeq(key, 2, Z(key)), Nil>>

\* Parent with the root test comparing to 0.
ParentNoRoot(key) ==
    IF Valid(key) # Nil THEN <<<<>>, Valid(key)>>
    ELSE IF Z(key) = 0 THEN <<<<>>, ErrRoot>>
    ELSE <<SubSeq(key, 1, Z(key) - 1), Nil>>

\* Parent returns the pair (QuadKey, error).
Parent(key) ==
    IF Valid(key) # Nil THEN <<<<>>, Valid(key)>>
    ELSE IF Z(key) = 1 THEN <<<<>>, ErrRoot>>
    ELSE <<SubSeq(key, 1, Z(key) - 1), Nil>>

\* byte('0') + d
DigitByte(d) ==
    CASE d = 0 -> "0" [] d = 1 -> "1" [] d = 2 -> "2" [] d = 3 -> "3"

\* DigitAt with the weights of the two bits exchanged.
DigitAtXHigh(x, y, mask) ==
    (IF BitSet(x, mask) THEN 2 ELSE 0) + (IF BitSet(y, mask) THEN 1 ELSE 0)

\* The digit FromXYZ writes for the bit position of mask.
DigitAt(x, y, mask) ==
    (IF BitSet(x, mask) THEN 1 ELSE 0) + (IF BitSet(y, mask) THEN 2 ELSE 0)

FromXYZ(x, y, z) ==
    [j \in 1..z |-> DigitByte(DigitAt(x, y, Pow2(z - j)))]

\* Children listing the 2x2 block column by column.
ChildrenColumnFirst(key) ==
    IF Valid(key) # Nil THEN <<>>
    ELSE LET xyz == XYZ(key)
             x == xyz[1]
             y == xyz[2]
             z == xyz[3]
             cx == 2 * x
             cy == 2 * y
             zz == z + 1
         IN  IF x < 0 \/ y < 0 \/ z < 0 THEN <<>>
             ELSE << FromXYZ(cx, cy, zz),
                     FromXYZ(cx, cy + 1, zz),
                     FromXYZ(cx + 1, cy, zz),
                     FromXYZ(cx + 1, cy + 1, zz) >>

Children(key) ==
    IF Valid(key) # Nil THEN <<>>
    ELSE LET xyz == XYZ(key)
             x == xyz[1]
             y == xyz[2]
             z == xyz[3]
             cx == 2 * x
             cy == 2 * y
             zz == z + 1
         IN  IF x < 0 \/ y < 0 \/ z < 0 THEN <<>>
             ELSE << FromXYZ(cx, cy, zz),
                     FromXYZ(cx + 1, cy, zz),
                     FromXYZ(cx, cy + 1, zz),
                     FromXYZ(cx + 1, cy + 1, zz) >>

FromKey(s) ==
    IF Valid(s) # Nil THEN <<<<>>, Valid(s)>> ELSE <<s, Nil>>

\* ---------------------------------------------------------------------
\* float64 values
\*
\* The longitudes the model handles are the grid longitudes
\* c*360/2^g - 180 (which float64 holds exactly) and, for d = -1 or 1, the
\* float64 right below or above one (math.Nextafter).  The latitudes are
\* the row boundaries atan(sinh(pi*(1 - 2*r/2^g)))*180/pi as the math
\* package computes them, their float64 neighbours, and four more values
\* with g = 0: r = -2 is 90, r = -1 is MERCATOR_MAX_LAT, r = 2 is
\* -MERCATOR_MAX_LAT, r = 3 is -90 (r = 0 and r = 1 are +-85.0511287798...,
\* inside the clamp).  A larger r is further south.
\* ---------------------------------------------------------------------

\* Lowest terms of c/2^g, so that equal floats are equal records.
RECURSIVE Canon(_, _)
Canon(c, g) ==
    IF g > 0 /\ c % 2 = 0 THEN Canon(c \div 2, g - 1) ELSE <<c, g>>

Lon(c, g) == [c |-> Canon(c, g)[1], g |-> Canon(c, g)[2], d |-> 0]
Lat(r, g) == [r |-> Canon(r, g)[1], g |-> Canon(r, g)[2], d |-> 0]

\* float64(0), a longitude and a latitude
Lon0 == Lon(1, 1)
Lat0 == Lat(1, 1)

MERCATOR_MAX_LAT == Lat(-1, 0)
NegMERCATOR_MAX_LAT == Lat(2, 0)

\* a < b for two longitudes that are not nudged
LonLess(a, b) == a.c * Pow2(b.g) < b.c * Pow2(a.g)
\* a < b (a is south of b) for two latitudes that are not nudged
LatLess(a, b) == a.r * Pow2(b.g) > b.r * Pow2(a.g)

\* math.Nextafter(x, y) on longitudes and on latitudes that are not nudged
NextafterLon(x, y) ==
    IF x = y THEN x
    ELSE IF LonLess(x, y) THEN [x EXCEPT !.d = 1] ELSE [x EXCEPT !.d = -1]
NextafterLat(x, y) ==
    IF x = y THEN x
    ELSE IF LatLess(x, y) THEN [x EXCEPT !.d = 1] ELSE [x EXCEPT !.d = -1]

Min2(a, b) == IF a < b THEN a ELSE b
Max2(a, b) == IF a > b THEN a ELSE b

\* floor(log2(N/D)) for N, D > 0: the exponent of the float64 N/D
RECURSIVE FloorLog2(_, _)
FloorLog2(N, D) ==
    IF N >= 2 * D THEN FloorLog2(N, 2 * D) + 1
    ELSE IF N < D THEN FloorLog2(2 * N, D) - 1
    ELSE 0

RECURSIVE IsPow2(_)
IsPow2(c) == c = 1 \/ (c > 1 /\ c % 2 = 0 /\ IsPow2(c \div 2))

\* ---------------------------------------------------------------------
\* internal functions
\* ---------------------------------------------------------------------

\* The longitude half of normalize.  With P = 2^g the longitude is
\* 180*N/P for N = 2c - P, and 360 is 2P in that unit; math.Mod truncates.
normalizeLon(lon) ==
    LET P == Pow2(lon.g)
        N == 2 * lon.c - P
        m == IF N >= 0 THEN N % (2 * P) ELSE -((-N) % (2 * P))
        w == IF m <= -P THEN m + 2 * P
             ELSE IF m > P THEN m - 2 * P
             ELSE m
    IN  Lon((w + P) \div 2, lon.g)

\* The latitude half of normalize.
normalizeLat(lat) ==
    IF LatLess(MERCATOR_MAX_LAT, lat) THEN MERCATOR_MAX_LAT
    ELSE IF LatLess(lat, NegMERCATOR_MAX_LAT) THEN NegMERCATOR_MAX_LAT
    ELSE lat

normalize(lon, lat) == <<normalizeLon(lon), normalizeLat(lat)>>

\* Whether the float64 right below the longitude c*360/2^g - 180 still
\* yields a value below c/2^g from (lon + 180) / 360, in round to nearest
\* even.  The step of the nudge is one ulp of lon, 2^(Ee-52).  The sum
\* lon + 180 keeps it only if it is at least the ulp of the sum, 2^(ET-52);
\* the quotient by 360 then rounds below c/2^g only if step/360 exceeds
\* half the gap below c/2^g, which is 2^(Eq-52).  The float64 below 0 is
\* the least subnormal, which 180 absorbs.
NudgeSurvives(lon) ==
    LET P == Pow2(lon.g)
        c == lon.c
        e == 360 * c - 180 * P
        Ee == FloorLog2(IF e < 0 THEN -e ELSE e, P)
        ET == FloorLog2(360 * c, P)
        Eq == FloorLog2(c, P) - (IF IsPow2(c) THEN 1 ELSE 0)
    IN  /\ lon.d = -1
        /\ c > 0
        /\ e # 0
        /\ Ee >= ET
        /\ Pow2(Ee + 1 - Eq) > 360

toX(lon, z) ==
    LET n == Pow2(z)
        P == Pow2(lon.g)
        fl == (lon.c * n) \div P
        x == IF NudgeSurvives(lon) /\ (lon.c * n) % P = 0 THEN fl - 1 ELSE fl
    IN  Max2(0, Min2(x, n - 1))

\* The values toY may return for a latitude in the clamp.  The result of
\* math.Log, math.Tan and math.Cos at a row boundary is within a few ulps
\* of the boundary, on one side or the other depending on the build, so
\* the floor is the row above or the row below; latitude 0 is exact
\* (tan 0 = 0, cos 0 = 1, log 1 = 0) and so is its nudged neighbour, whose
\* radians underflow to 0.
toY(lat, z) ==
    LET n == Pow2(z)
        P == Pow2(lat.g)
        fl == (lat.r * n) \div P
        clamp(y) == Max2(0, Min2(y, n - 1))
    IN  IF (lat.r * n) % P = 0 /\ 2 * lat.r # P
        THEN {clamp(fl - 1), clamp(fl)}
        ELSE {clamp(fl)}

\* orb.Bound: Min and Max are points <<lon, lat>>
ZeroBound == [Min |-> <<Lon0, Lat0>>, Max |-> <<Lon0, Lat0>>]
Left(b) == b.Min[1]
Bottom(b) == b.Min[2]
Right(b) == b.Max[1]
Top(b) == b.Max[2]

\* Bound with the sentinel test written x <= 0.
BoundLE0(key) ==
    IF Valid(key) # Nil THEN ZeroBound
    ELSE LET xyz == XYZ(key)
             x == xyz[1]
             y == xyz[2]
             z == xyz[3]
             west == Lon(x, z)
             east == Lon(x + 1, z)
             north == Lat(y, z)
             south == Lat(y + 1, z)
         IN  IF x <= 0 \/ y < 0 \/ z < 0 THEN ZeroBound
             ELSE [Min |-> << IF LonLess(east, west) THEN east ELSE west,
                              IF LatLess(south, north) THEN south ELSE north >>,
                   Max |-> << IF LonLess(west, east) THEN east ELSE west,
                              IF LatLess(north, south) THEN south ELSE north >>]

Bound(key) ==
    IF Valid(key) # Nil THEN ZeroBound
    ELSE LET xyz == XYZ(key)
             x == xyz[1]
             y == xyz[2]
             z == xyz[3]
             west == Lon(x, z)
             east == Lon(x + 1, z)
             north == Lat(y, z)
             south == Lat(y + 1, z)
         IN  IF x < 0 \/ y < 0 \/ z < 0 THEN ZeroBound
             ELSE [Min |-> << IF LonLess(east, west) THEN east ELSE west,
                              IF LatLess(south, north) THEN south ELSE north >>,
                   Max |-> << IF LonLess(west, east) THEN east ELSE west,
                              IF LatLess(north, south) THEN south ELSE north >>]

\* KeysInBound up to the two calls of toY: the nudged edges.
eastInOf(bound) ==
    LET west == normalize(Left(bound), Bottom(bound))[1]
        east == normalize(Right(bound), Top(bound))[1]
    IN  IF east # west THEN NextafterLon(east, west) ELSE east

southInOf(bound) ==
    LET south == normalize(Left(bound), Bottom(bound))[2]
        north == normalize(Right(bound), Top(bound))[2]
    IN  IF south # north THEN NextafterLat(south, north) ELSE south

\* KeysInBound, given what toY(north, zoom) and toY(southIn, zoom) returned.
KeysInBound(bound, zoom, yNorth, ySouthIn) ==
    LET west == normalize(Left(bound), Bottom(bound))[1]
        x1 == toX(west, zoom)
        x2 == toX(eastInOf(bound), zoom)
        minX == IF x1 > x2 THEN x2 ELSE x1
        maxX == IF x1 > x2 THEN x1 ELSE x2
        minY == IF yNorth > ySouthIn THEN ySouthIn ELSE yNorth
        maxY == IF yNorth > ySouthIn THEN yNorth ELSE ySouthIn
        h == maxY - minY + 1
    IN  IF maxX < minX \/ maxY < minY THEN <<>>
        ELSE [i \in 1..((maxX - minX + 1) * h) |->
                 FromXYZ(minX + ((i - 1) \div h), minY + ((i - 1) % h), zoom)]

\* ---------------------------------------------------------------------
\* The caller
\* ---------------------------------------------------------------------
VARIABLES
    key,    \* the QuadKey the caller holds
    arg,    \* <<x, y, z>> given to FromXYZ when it made key, else NoArg
    box,    \* the orb.Bound the caller holds
    op,     \* the last call
    zoom,   \* the zoom given to the last call, 0 if it takes none
    err,    \* the error the last call returned
    xyz,    \* what the last XYZ returned
    ret,    \* the key the last Parent or FromKey returned
    keys    \* the slice the last Children or KeysInBound returned

vars == <<key, arg, box, op, zoom, err, xyz, ret, keys>>

NoArg == <<-1, -1, -1>>
NoXYZ == <<0, 0, 0>>

\* Largest g of the longitudes and latitudes of a box the caller writes
\* down (the boxes Bound returns come on top of these).
MaxG == 1

Keys == StringsUpTo(MaxZ)
Coords == 0..(Pow2(MaxZ) - 1)
Zooms == 0..MaxZ
\* -540, the grid from -180 to 180, 270
Lons == {Lon(c, MaxG) : c \in 0..Pow2(MaxG)} \cup {Lon(-1, 0), Lon(5, 2)}
\* 90, the row boundaries, -90
Lats == {Lat(r, MaxG) : r \in 0..Pow2(MaxG)} \cup {Lat(-2, 0), Lat(3, 0)}
Points == Lons \X Lats

\* The zoom and the results of a call: what the call does not take or
\* return is the zero value.
Returns(o, zm, e, c, r, ks) ==
    /\ op' = o
    /\ zoom' = zm
    /\ err' = e
    /\ xyz' = c
    /\ ret' = r
    /\ keys' = ks

Init ==
    /\ key = <<>>
    /\ arg = NoArg
    /\ box = ZeroBound
    /\ op = "init"
    /\ zoom = 0
    /\ err = Nil
    /\ xyz = NoXYZ
    /\ ret = <<>>
    /\ keys = <<>>

\* The library keeps no state between calls, so a behaviour is one
\* scenario: the caller makes a key or a box, then calls methods on it.

\* QuadKey(s): the conversion of any string
NewKey(s) ==
    /\ op = "init"
    /\ key' = s
    /\ arg' = NoArg
    /\ UNCHANGED box
    /\ Returns("QuadKey", 0, Nil, NoXYZ, <<>>, <<>>)

CallFromXYZ(x, y, z) ==
    /\ op = "init"
    /\ key' = FromXYZ(x, y, z)
    /\ arg' = <<x, y, z>>
    /\ UNCHANGED box
    /\ Returns("FromXYZ", 0, Nil, NoXYZ, <<>>, <<>>)

CallFromKey(s) ==
    /\ op = "init"
    /\ key' = s
    /\ arg' = NoArg
    /\ UNCHANGED box
    /\ Returns("FromKey", 0, FromKey(s)[2], NoXYZ, FromKey(s)[1], <<>>)

CallValid ==
    /\ op # "init"
    /\ Returns("Valid", 0, Valid(key), NoXYZ, <<>>, <<>>)
    /\ UNCHANGED <<key, arg, box>>

CallXYZ ==
    /\ op # "init"
    /\ Returns("XYZ", 0, Nil, XYZ(key), <<>>, <<>>)
    /\ UNCHANGED <<key, arg, box>>

CallParent ==
    /\ op # "init"
    /\ Returns("Parent", 0, Parent(key)[2], NoXYZ, Parent(key)[1], <<>>)
    /\ UNCHANGED <<key, arg, box>>

CallChildren ==
    /\ op # "init"
    /\ Returns("Children", 0, Nil, NoXYZ, <<>>, Children(key))
    /\ UNCHANGED <<key, arg, box>>

\* box = key.Bound()
CallBound ==
    /\ op # "init"
    /\ box' = Bound(key)
    /\ Returns("Bound", 0, Nil, NoXYZ, <<>>, <<>>)
    /\ UNCHANGED <<key, arg>>

\* box = orb.Bound{Min: min, Max: max}, with no key at hand
NewBox(min, max) ==
    /\ op = "init"
    /\ box' = [Min |-> min, Max |-> max]
    /\ UNCHANGED <<key, arg>>
    /\ Returns("orb.Bound", 0, Nil, NoXYZ, <<>>, <<>>)

\* KeysInBound(box, z), on the box the caller just got.  The two calls of
\* toY return one of the values the build can produce, the same one when
\* they are given the same latitude.
CallKeysInBound(z) ==
    /\ op \in {"Bound", "orb.Bound"}
    /\ LET north == normalize(Right(box), Top(box))[2]
           southIn == southInOf(box)
       IN  \E yNorth \in toY(north, z), ySouthIn \in toY(southIn, z) :
               /\ southIn = north => ySouthIn = yNorth
               /\ Returns("KeysInBound", z, Nil, NoXYZ, <<>>,
                          KeysInBound(box, z, yNorth, ySouthIn))
    /\ UNCHANGED <<key, arg, box>>

Next ==
    \/ \E s \in Keys : NewKey(s)
    \/ \E x \in Coords, y \in Coords, z \in Zooms : CallFromXYZ(x, y, z)
    \/ \E s \in Keys : CallFromKey(s)
    \/ CallValid
    \/ CallXYZ
    \/ CallParent
    \/ CallChildren
    \/ CallBound
    \/ \E min \in Points, max \in Points : NewBox(min, max)
    \/ \E z \in Zooms : CallKeysInBound(z)

Spec == Init /\ [][Next]_vars

\* ---------------------------------------------------------------------
\* Properties
\* ---------------------------------------------------------------------

\* A string of one or more quad digits.
WellFormed(k) == k # <<>> /\ \A i \in 1..Len(k) : k[i] \in Digits

Range(seq) == {seq[i] : i \in 1..Len(seq)}

\* Bit b (0 is the least significant) of a natural number.
Bit(v, b) == (v \div Pow2(b)) % 2

\* The key was made by FromXYZ from a zoom of at least 1 and a column and
\* a row of the grid of that zoom.
MadeInRange ==
    /\ arg # NoArg
    /\ arg[3] >= 1
    /\ arg[1] < Pow2(arg[3])
    /\ arg[2] < Pow2(arg[3])

\* The box is the Bound of the valid key at hand, and KeysInBound was
\* called on it at the zoom of the key.
EnumeratedOwnBound ==
    /\ op = "KeysInBound"
    /\ WellFormed(key)
    /\ box = Bound(key)
    /\ zoom = Z(key)

\* C1: a key made by FromXYZ from an in-range (x, y, z) with z >= 1 has
\* length z, Valid returns no error on it, and XYZ returns (x, y, z).
C1_RoundTrip ==
    MadeInRange =>
        /\ Len(key) = arg[3]
        /\ op = "Valid" => err = Nil
        /\ op = "XYZ" => xyz = arg

C1_Witness == op = "XYZ" /\ arg = <<5, 2, 3>> /\ xyz = <<5, 2, 3>>

\* C2: Valid returns no error exactly on the non-empty strings of quad
\* digits; XYZ returns (-1, -1, -1) exactly on the other strings, and on a
\* valid key it returns x >= 0, y >= 0 and z = len(key).
C2_ValidityPartition ==
    /\ op = "Valid" => (err = Nil <=> WellFormed(key))
    /\ op = "XYZ" => (xyz = <<-1, -1, -1>> <=> ~WellFormed(key))
    /\ op = "XYZ" /\ WellFormed(key) =>
           xyz[1] >= 0 /\ xyz[2] >= 0 /\ xyz[3] = Len(key)

C2_Witness ==
    op = "XYZ" /\ key = <<"0", "a">> /\ xyz = <<-1, -1, -1>>

\* C3: Children of a valid key returns four keys, the key with "0", "1",
\* "2" and "3" appended, in that order.
C3_ChildrenAppend ==
    op = "Children" /\ WellFormed(key) =>
        /\ Len(keys) = 4
        /\ \A i \in 0..3 : keys[i + 1] = Append(key, <<"0", "1", "2", "3">>[i + 1])

C3_Witness ==
    op = "Children" /\ key = <<"1", "2">> /\ keys[2] = <<"1", "2", "1">>

\* C4: Parent of a valid key of length >= 2 returns no error and the key
\* without its last byte, and the Children of that parent contain the key.
C4_ParentChildren ==
    op = "Parent" /\ WellFormed(key) /\ Len(key) >= 2 =>
        /\ err = Nil
        /\ ret = SubSeq(key, 1, Len(key) - 1)
        /\ key \in Range(Children(ret))

C4_Witness ==
    op = "Parent" /\ key = <<"0", "1", "2">> /\ ret = <<"0", "1">>

\* C5: KeysInBound of the Bound of a valid key, at the zoom of the key,
\* contains the key.
C5_BoundContainment ==
    EnumeratedOwnBound => key \in Range(keys)

\* C6: KeysInBound of the Bound of a tile that has a left or an upper
\* neighbour, at the zoom of the tile, returns that tile only, and so
\* neither the left nor the upper neighbour.
C6_HalfOpenEdge ==
    EnumeratedOwnBound /\ (XYZ(key)[1] >= 1 \/ XYZ(key)[2] >= 1) =>
        /\ keys = <<key>>
        /\ XYZ(key)[1] >= 1 =>
               FromXYZ(XYZ(key)[1] - 1, XYZ(key)[2], zoom) \notin Range(keys)
        /\ XYZ(key)[2] >= 1 =>
               FromXYZ(XYZ(key)[1], XYZ(key)[2] - 1, zoom) \notin Range(keys)

\* C7 as stated: Parent of every key of length 1 returns the root error
\* and no key.
C7_RootErrorAnyKey ==
    op = "Parent" /\ Len(key) = 1 => err = ErrRoot /\ ret = <<>>

\* C7 amended: Parent of every valid key of length 1 returns the root
\* error and no key; on a key of length 1 that is not a quad digit it
\* returns the error of Valid and no key.
C7_RootError ==
    op = "Parent" /\ Len(key) = 1 =>
        /\ ret = <<>>
        /\ err = IF key[1] \in Digits THEN ErrRoot ELSE ErrDigit(0, key[1])

C7_Witness == op = "Parent" /\ key = <<"0">> /\ err = ErrRoot

\* C8: Bound returns the zero rectangle exactly on the invalid keys and
\* Children returns the empty list exactly on the invalid keys; neither
\* returns an error.
C8_FailClosed ==
    /\ op = "Bound" => (box = ZeroBound <=> ~WellFormed(key)) /\ err = Nil
    /\ op = "Children" => (keys = <<>> <=> ~WellFormed(key)) /\ err = Nil

C8_Witness ==
    op = "Bound" /\ key = <<"0">> /\ box # ZeroBound

\* The normalized box has no width or no height.
Degenerate(b) ==
    \/ normalize(Left(b), Bottom(b))[1] = normalize(Right(b), Top(b))[1]
    \/ normalize(Left(b), Bottom(b))[2] = normalize(Right(b), Top(b))[2]

\* C9: on a box whose normalized west equals its east, or south its north,
\* that edge is not nudged and KeysInBound returns no key, at every zoom.
C9_DegenerateEmpty ==
    op = "KeysInBound" /\ Degenerate(box) =>
        /\ normalize(Left(box), Bottom(box))[1] = normalize(Right(box), Top(box))[1]
              => eastInOf(box).d = 0
        /\ normalize(Left(box), Bottom(box))[2] = normalize(Right(box), Top(box))[2]
              => southInOf(box).d = 0
        /\ keys = <<>>

====
